---- MODULE Spec2Model ----
(***************************************************************************)
(* Model of the AnkiPH API client (src/api_client.py): the request engine  *)
(* ApiClient.post with its retry/backoff policy, the two transport         *)
(* adapters, the locked reactive refresh _try_refresh_token and the        *)
(* proactive refresh ensure_valid_token, run by threads that share one     *)
(* client instance (the module-level `api`).                               *)
(*                                                                         *)
(* Every thread runs a call stack of frames.  A step of a thread is one    *)
(* piece of straight-line code between two points where another thread can *)
(* observe or change shared state (the in-memory token, the credential     *)
(* store, the refresh lock, a request in flight).                          *)
(***************************************************************************)
EXTENDS Integers, Sequences, FiniteSets, TLC

(***************************************************************************)
(* Bounds of the model                                                     *)
(***************************************************************************)
\* largest max_retries a caller passes to post
MaxRetries == 3
\* random.random() is sampled at k / JitterDen, k in 0 .. JitterDen - 1
JitterDen == 2
\* number of credentials the backend can issue during one run
MaxIssued == 2
\* cards per page in the model (the code pages by 1000)
PageLimit == 2
\* the largest deck
MaxCards == 5
\* attempt numbers the retry delay is computed for: 0 .. MaxAttempts - 1
MaxAttempts == 8

(***************************************************************************)
(* Program constants                                                       *)
(***************************************************************************)
\* post(..., max_retries: int = 3)
DefaultMaxRetries == 3
\* AnkiPHRateLimitError(retry_after: int = 60), headers.get('Retry-After', 60)
DefaultRetryAfter == 60
\* exponential_backoff_with_jitter(base_delay = 1.0), in milliseconds
BaseDelayMs == 1000
\* exponential_backoff_with_jitter(max_delay = 32.0), in milliseconds
MaxDelayMs == 32000

\* batch_download_decks: "Maximum 10 decks per batch download"
MaxDecksPerBatch == 10
\* push_deck_cards: "Maximum 500 cards per request"
MaxCardsPerPush == 500
Threads == {1, 2}
NoThread == 0
\* access_token = None / no Authorization header / no stored token
NoToken == 0
\* the credential held when the run starts
InitTok == 1
\* status_code = None
NoStatus == 0

Min(a, b) == IF a < b THEN a ELSE b

RECURSIVE Pow2(_)
Pow2(n) == IF n = 0 THEN 1 ELSE 2 * Pow2(n - 1)

(***************************************************************************)
(* What the network can do with one request (the environment).  `net` is   *)
(* the fate of the connection; when a response came back it has a status,  *)
(* a body that parses as JSON or not, and for 429 a Retry-After header     *)
(* (absent, not an integer, or a number of seconds).                       *)
(***************************************************************************)
Statuses == {200, 400, 401, 403, 500}
RetryAfterVals == {5}
\* the Retry-After header: absent, not an integer, or an integer of seconds
RaAbsent == [kind |-> "absent", val |-> 0]
RaBad == [kind |-> "bad", val |-> 0]
RetryAfterHeaders ==
    {RaAbsent, RaBad} \cup [kind : {"int"}, val : RetryAfterVals]

NetFailures ==
    [net : {"timeout", "connerr", "other"}, status : {NoStatus},
     body : {"none"}, ra : {RaAbsent}]
HttpResponses ==
    [net : {"ok"}, status : Statuses, body : {"json", "bad"}, ra : {RaAbsent}]
    \cup [net : {"ok"}, status : {429}, body : {"json", "bad"},
          ra : RetryAfterHeaders]
HttpOutcomes == NetFailures \cup HttpResponses

(***************************************************************************)
(* What a transport adapter hands to post: the parsed body                 *)
(* (t = "ok"), AnkiPHRateLimitError (t = "rate"), AnkiPHAPIError           *)
(* (t = "api", with its status_code; inv marks the "Invalid response"      *)
(* error that carries the raw body), or another exception (t = "exc").     *)
(* msg names the message of errors post itself raises.                     *)
(***************************************************************************)
Res(t, status, ra, inv, msg, data) ==
    [t |-> t, status |-> status, ra |-> ra, inv |-> inv, msg |-> msg,
     data |-> data]
NoData == [success |-> FALSE, access |-> NoToken, refresh |-> NoToken]
NoRes == Res("none", NoStatus, 0, FALSE, "", NoData)

\* AnkiPHAPIError.is_auth_error
IsAuthError(e) == e.t \in {"api", "rate"} /\ e.status \in {401, 403}

\* every status from 400 up counted as a server error
IsServerErrorFrom400(e) ==
    e.t \in {"api", "rate"} /\ e.status # NoStatus
    /\ 400 <= e.status /\ e.status < 600

\* AnkiPHAPIError.is_server_error
IsServerError(e) ==
    e.t \in {"api", "rate"} /\ e.status # NoStatus
    /\ 500 <= e.status /\ e.status < 600

\* ApiClient._post_with_requests
PostWithRequests(h, data) ==
    IF h.net # "ok"
    THEN Res("api", NoStatus, 0, FALSE, "network", NoData)
    ELSE IF h.body = "bad"
    THEN Res("api", h.status, 0, TRUE, "invalid", NoData)
    ELSE IF h.status = 429
    THEN IF h.ra.kind = "absent"
         THEN Res("rate", 429, DefaultRetryAfter, FALSE, "rate", NoData)
         ELSE IF h.ra.kind = "bad"
         THEN Res("exc", NoStatus, 0, FALSE, "ValueError", NoData)
         ELSE Res("rate", 429, h.ra.val, FALSE, "rate", NoData)
    ELSE IF h.status >= 400
    THEN Res("api", h.status, 0, FALSE, "http", NoData)
    ELSE Res("ok", h.status, 0, FALSE, "", data)

\* ApiClient._post_with_urllib
PostWithUrllib(h, data) ==
    IF h.net # "ok"
    THEN Res("api", NoStatus, 0, FALSE, "network", NoData)
    ELSE IF h.status < 400
    THEN IF h.body = "bad"
         THEN Res("api", NoStatus, 0, FALSE, "network", NoData)
         ELSE Res("ok", h.status, 0, FALSE, "", data)
    ELSE IF h.status = 429
    THEN IF h.ra.kind \in {"absent", "bad"}
         THEN Res("rate", 429, DefaultRetryAfter, FALSE, "rate", NoData)
         ELSE Res("rate", 429, h.ra.val, FALSE, "rate", NoData)
    ELSE Res("api", h.status, 0, FALSE, "http", NoData)

(***************************************************************************)
(* The retry policy of post                                                *)
(***************************************************************************)
\* the jittered exponential term without the cap
BackoffUncapped(attempt, k) ==
    (BaseDelayMs * Pow2(attempt) * (JitterDen + k)) \div (2 * JitterDen)

\* exponential_backoff_with_jitter(attempt), random.random() = k / JitterDen
ExponentialBackoffWithJitter(attempt, k) ==
    (Min(BaseDelayMs * Pow2(attempt), MaxDelayMs) * (JitterDen + k))
        \div (2 * JitterDen)

\* a changed _handle_rate_limit: the cool-down scaled like a jittered backoff
HandleRateLimitJittered(retry_after) == retry_after * 500

\* ApiClient._handle_rate_limit: time.sleep(retry_after), in milliseconds
HandleRateLimit(retry_after) == retry_after * 1000

\* sleeping the cool-down on the last attempt too
RateLimitRetryOffByOne(attempt, max) == attempt < max

\* except AnkiPHRateLimitError: if attempt < max_retries - 1
RateLimitRetry(attempt, max) == attempt < max - 1

\* a changed guard: refresh on an auth error of any attempt
RefreshEligibleAnyAttempt(e, attempt) == IsAuthError(e)

\* if e.is_auth_error() and attempt == 0
RefreshEligible(e, attempt) == IsAuthError(e) /\ attempt = 0

\* a changed guard: a server error is retried on the last attempt too
ServerErrorRetryOffByOne(e, attempt, max) == IsServerError(e) /\ attempt < max

\* auth errors retried with backoff like server errors
ServerErrorRetryAuthToo(e, attempt, max) ==
    (IsServerError(e) \/ IsAuthError(e)) /\ attempt < max - 1

\* if e.is_server_error() and attempt < max_retries - 1
ServerErrorRetry(e, attempt, max) == IsServerError(e) /\ attempt < max - 1

\* an unexpected exception never retried
GenericRetryNever(attempt, max) == FALSE

\* except Exception: if attempt < max_retries - 1
GenericRetry(attempt, max) == attempt < max - 1

\* for attempt in range(max_retries): the index of the next iteration
NextAttempt(attempt) == attempt + 1

\* a changed loop: range(max_retries + 1)
InRangeInclusive(attempt, max) == attempt <= max

\* for attempt in range(max_retries): whether the loop body runs again
InRange(attempt, max) == attempt < max

\* ApiClient._headers: the token of the Authorization header, if any
\* every request with an Authorization header, whatever include_auth says
HeadersAlwaysAuth(include_auth, token) ==
    [content_type |-> "application/json", authorization |-> token]

\* _headers(include_auth): authorization is the token after "Bearer ",
\* NoToken when the header is not set
Headers(include_auth, token) ==
    [content_type |-> "application/json",
     authorization |-> IF include_auth /\ token # NoToken THEN token
                       ELSE NoToken]

\* check_token_expiry
NoExpiry == 0
\* an expires_at that datetime.fromisoformat rejects
BadExpiry == -1

\* a missing expiry taken as expired
CheckTokenExpiryPessimistic(expires_at, now) ==
    IF expires_at = NoExpiry THEN TRUE
    ELSE IF expires_at = BadExpiry THEN FALSE
    ELSE now >= expires_at

\* expired only once the expiry time has passed
CheckTokenExpiryStrictlyAfter(expires_at, now) ==
    IF expires_at = NoExpiry THEN FALSE
    ELSE IF expires_at = BadExpiry THEN FALSE
    ELSE now > expires_at

\* check_token_expiry(expires_at_str), the clock reading `now`
CheckTokenExpiry(expires_at, now) ==
    IF expires_at = NoExpiry THEN FALSE
    ELSE IF expires_at = BadExpiry THEN FALSE
    ELSE now >= expires_at


(***************************************************************************)
(* State                                                                   *)
(***************************************************************************)
VARIABLES
    access_token,   \* api.access_token, the in-memory credential
    store,          \* the external credential store (config)
    lock,           \* api._refresh_lock: the thread holding it, or NoThread
    has_requests,   \* _HAS_REQUESTS: which transport adapter is in use
    issued,         \* number of credentials the backend has issued
    stack,          \* per thread: its call stack, innermost frame last
    ret,            \* per thread: the value or error its last callee left
    done,           \* per thread: the finished outermost call
    refreshSent,    \* requests sent to /addon-refresh-token so far
    applied,        \* per thread: times the backend applied its write
    pull,           \* the activation of pull_all_cards, and the deck it reads
    bulk,           \* the activation of a size-limited bulk operation
    calc,           \* the last retry delay computed, with its inputs
    download        \* the activation of download_deck_file

\* the state of the request engine, and the state of the facade calls
engine == <<access_token, store, lock, has_requests, issued, stack, ret, done,
            refreshSent, applied>>
facade == <<pull, bulk, calc, download>>

vars == <<access_token, store, lock, has_requests, issued, stack, ret, done,
          refreshSent, applied, pull, bulk, calc, download>>

\* False returned whatever happened
BoolResAlwaysFalse(b) ==
    Res("bool", NoStatus, 0, FALSE, "", NoData)

\* the value a function returning a bool leaves to its caller
BoolRes(b) ==
    Res("bool", NoStatus, 0, FALSE, "", [NoData EXCEPT !.success = b])

NotDone == [fr |-> [f |-> "none", pc |-> "none"], res |-> NoRes]

Idle(t) == stack[t] = <<>> /\ done[t] = NotDone
Depth(t) == Len(stack[t])
Top(t) == stack[t][Depth(t)]
InFrame(t, f, pc) ==
    Depth(t) > 0 /\ Top(t).f = f /\ Top(t).pc = pc

\* the frame a call of post starts with (lines 261-264)
PostFrame(path, auth, max, token) ==
    [f |-> "post", path |-> path, auth |-> auth, max |-> max, attempt |-> 0,
     hdr |-> Headers(auth, token), pc |-> "send", e |-> NoRes,
     \* history of the call, for the properties only
     sends |-> 0, hist |-> <<>>, sleeps |-> <<>>, sentHdr |-> <<>>,
     refreshes |-> 0, trigMem |-> NoToken]

TryFrame ==
    [f |-> "try", pc |-> "acquire", rt |-> NoToken, new |-> NoData]

EnsureFrame ==
    [f |-> "ensure", pc |-> "start", tok |-> NoToken, exp |-> NoExpiry,
     rt |-> NoToken, new |-> NoData,
     \* history of the call, for the properties only
     checked |-> FALSE, now |-> 0, expired |-> FALSE, mem |-> NoToken]

SetTop(t, fr) == [stack EXCEPT ![t][Depth(t)] = fr]
Push(t, fr, callee) == [stack EXCEPT ![t] = Append(SetTop(t, fr)[t], callee)]
Pop(t) == [stack EXCEPT ![t] = SubSeq(stack[t], 1, Depth(t) - 1)]

\* the top frame returns or raises `r`, having become `fr`
Leave(t, frame, r) ==
    /\ stack' = Pop(t)
    /\ ret' = [ret EXCEPT ![t] = IF Depth(t) = 1 THEN NoRes ELSE r]
    /\ done' = IF Depth(t) = 1
               THEN [done EXCEPT ![t] =
                        [fr |-> [frame EXCEPT !.pc = "left"], res |-> r]]
               ELSE done

\* a page of a pull as the properties remember it: whether it succeeded,
\* how many cards it held, its has_more flag and its metadata
NoPage ==
    [success |-> FALSE, count |-> 0, has_more |-> "absent", meta |-> 0,
     total |-> 0]

\* no next_offset in a page
NoOffset == -1

NoLast ==
    [success |-> FALSE, count |-> 0, has_more |-> "absent",
     next_offset |-> NoOffset]

\* no call of pull_all_cards, of a bulk operation, of the delay function
NoPull ==
    [pc |-> "idle", deck |-> 0, observer |-> FALSE, offset |-> 0,
     all_cards |-> <<>>, note_types |-> 0, latest_change_id |-> 0,
     total_cards |-> 0, result |-> "none",
     \* history of the call, for the properties only
     reqs |-> <<>>, obs |-> <<>>, stable |-> TRUE, first |-> NoPage,
     last |-> NoLast]
NoBulk == [pc |-> "idle", op |-> "none", n |-> 0]
NoCalc == [pc |-> "idle", attempt |-> 0, k |-> 0, delay |-> 0, slept |-> 0]

\* no response to the GET of download_deck_file, and no call of it
NoGetResponse == [net |-> "none", status |-> NoStatus, ctype |-> "", len |-> 0]
NoDownload ==
    [pc |-> "idle", url |-> "", authorization |-> NoToken,
     resp |-> NoGetResponse, content |-> 0, error |-> ""]

Init ==
    /\ pull = NoPull
    /\ bulk = NoBulk
    /\ calc = NoCalc
    /\ download = NoDownload
    /\ access_token = InitTok
    /\ store \in [access : {InitTok}, refresh : {NoToken, InitTok},
                  expires : {NoExpiry, 1}]
    /\ lock = NoThread
    /\ has_requests \in BOOLEAN
    /\ issued = 0
    /\ stack = [t \in Threads |-> <<>>]
    /\ ret = [t \in Threads |-> NoRes]
    /\ done = [t \in Threads |-> NotDone]
    /\ refreshSent = 0
    /\ applied = [t \in Threads |-> 0]

(***************************************************************************)
(* ApiClient.post                                                          *)
(***************************************************************************)
\* a caller enters post: url and headers are built from the current token
CallPost(t, path, auth, max) ==
    /\ Idle(t)
    /\ UNCHANGED facade
    /\ stack' = [stack EXCEPT ![t] =
                    <<PostFrame(path, auth, max, access_token)>>]
    /\ UNCHANGED <<access_token, store, lock, has_requests, issued, ret, done,
                   refreshSent, applied>>

\* one iteration of the loop starts: the adapter puts the request on the wire
Send(t) ==
    /\ InFrame(t, "post", "send")
    /\ UNCHANGED facade
    /\ InRange(Top(t).attempt, Top(t).max)
    /\ stack' = SetTop(t, [Top(t) EXCEPT !.pc = "recv",
                              !.sends = @ + 1,
                              !.sentHdr = Append(@, Top(t).hdr)])
    /\ refreshSent' = IF Top(t).path = "refresh" THEN refreshSent + 1
                      ELSE refreshSent
    /\ UNCHANGED <<access_token, store, lock, has_requests, issued, ret, done,
                   applied>>

\* the loop ran out of iterations: raise "Maximum retries exceeded"
LoopExit(t) ==
    /\ InFrame(t, "post", "send")
    /\ UNCHANGED facade
    /\ ~InRange(Top(t).attempt, Top(t).max)
    /\ Leave(t, Top(t), Res("api", NoStatus, 0, FALSE, "max_retries", NoData))
    /\ UNCHANGED <<access_token, store, lock, has_requests, issued,
                   refreshSent, applied>>

\* the bodies the backend can answer a 200 with
Bodies(path, h) ==
    IF h.net = "ok" /\ h.status = 200 /\ h.body = "json"
    THEN IF path \in {"refresh", "login"}
         THEN {NoData, [success |-> TRUE, access |-> NoToken,
                        refresh |-> NoToken]}
              \cup (IF issued < MaxIssued
                    THEN [success : {TRUE}, access : {InitTok + issued + 1},
                          refresh : {NoToken, InitTok + issued + 1}]
                    ELSE {})
         ELSE {[success |-> TRUE, access |-> NoToken, refresh |-> NoToken]}
    ELSE {NoData}

\* whether the backend applied the write this request carries
Applies(path, h) ==
    IF path # "write" THEN {FALSE}
    ELSE IF h.net = "connerr" THEN {FALSE}
    ELSE IF h.net # "ok" THEN BOOLEAN
    ELSE IF h.status = 200 THEN {TRUE}
    ELSE IF h.status >= 500 THEN BOOLEAN
    ELSE {FALSE}

\* the adapter returns the parsed body or raises (lines 266-269)
Transport(t, h) ==
    /\ InFrame(t, "post", "recv")
    /\ UNCHANGED facade
    /\ \E d \in Bodies(Top(t).path, h), ap \in Applies(Top(t).path, h) :
       /\ LET r == IF has_requests THEN PostWithRequests(h, d)
                ELSE PostWithUrllib(h, d)
          IN stack' = SetTop(t, [Top(t) EXCEPT !.pc = "handle", !.e = r,
                        !.hist = Append(@, [t |-> r.t, status |-> r.status,
                                            ra |-> r.ra, inv |-> r.inv,
                                            net |-> h.net])])
       /\ issued' = IF d.access # NoToken THEN issued + 1 ELSE issued
       /\ applied' = [applied EXCEPT ![t] = IF ap THEN @ + 1 ELSE @]
    /\ UNCHANGED <<access_token, store, lock, has_requests, ret, done,
                   refreshSent>>

\* `continue` after sleeping `ms` (kind names the sleep), or without a sleep
Continue(fr, kind, ms) ==
    [fr EXCEPT !.pc = "send", !.e = NoRes,
               !.attempt = NextAttempt(fr.attempt),
               !.sleeps = IF kind = "none" THEN @
                          ELSE Append(@, [kind |-> kind, ms |-> ms,
                                          after |-> fr.attempt])]

\* the error post raises once the generic branch gave up (line 309)
FailedAfter(max) ==
    Res("api", NoStatus, 0, FALSE, "failed_after_" \o ToString(max), NoData)

\* the return statement and the except clauses of post (lines 271-309)
Handle(t, k) ==
    /\ InFrame(t, "post", "handle")
    /\ UNCHANGED facade
    /\ LET fr == Top(t)
           e == fr.e
       IN
       IF e.t = "ok" THEN
            /\ Leave(t, fr, e)
            /\ UNCHANGED <<access_token, store, lock, has_requests, issued,
                           refreshSent, applied>>
       ELSE IF e.t = "rate" THEN
            /\ IF RateLimitRetry(fr.attempt, fr.max)
               THEN /\ stack' = SetTop(t, Continue(fr, "rate",
                                            HandleRateLimit(e.ra)))
                    /\ UNCHANGED <<ret, done>>
               ELSE Leave(t, fr, e)
            /\ UNCHANGED <<access_token, store, lock, has_requests, issued,
                           refreshSent, applied>>
       ELSE IF e.t = "api" THEN
            /\ IF RefreshEligible(e, fr.attempt)
               THEN /\ stack' = Push(t, [fr EXCEPT !.pc = "refreshing",
                                            !.refreshes = @ + 1,
                                            !.trigMem = access_token],
                                     TryFrame)
                    /\ UNCHANGED <<ret, done>>
               ELSE IF ServerErrorRetry(e, fr.attempt, fr.max)
               THEN /\ stack' = SetTop(t, Continue(fr, "backoff",
                              ExponentialBackoffWithJitter(fr.attempt, k)))
                    /\ UNCHANGED <<ret, done>>
               ELSE Leave(t, fr, e)
            /\ UNCHANGED <<access_token, store, lock, has_requests, issued,
                           refreshSent, applied>>
       ELSE
            /\ IF GenericRetry(fr.attempt, fr.max)
               THEN /\ stack' = SetTop(t, Continue(fr, "backoff",
                              ExponentialBackoffWithJitter(fr.attempt, k)))
                    /\ UNCHANGED <<ret, done>>
               ELSE Leave(t, fr, FailedAfter(fr.max))
            /\ UNCHANGED <<access_token, store, lock, has_requests, issued,
                           refreshSent, applied>>

\* _try_refresh_token returned (lines 285-298)
AfterRefresh(t, k) ==
    /\ InFrame(t, "post", "refreshing")
    /\ UNCHANGED facade
    /\ ret[t].t = "bool"
    /\ LET fr == Top(t)
       IN IF ret[t].data.success
          THEN /\ stack' = SetTop(t, Continue(
                     [fr EXCEPT !.hdr = Headers(fr.auth, access_token)],
                     "none", 0))
               /\ ret' = [ret EXCEPT ![t] = NoRes]
               /\ UNCHANGED done
          ELSE IF ServerErrorRetry(fr.e, fr.attempt, fr.max)
          THEN /\ stack' = SetTop(t, Continue(fr, "backoff",
                         ExponentialBackoffWithJitter(fr.attempt, k)))
               /\ ret' = [ret EXCEPT ![t] = NoRes]
               /\ UNCHANGED done
          ELSE Leave(t, fr, fr.e)
    /\ UNCHANGED <<access_token, store, lock, has_requests, issued,
                   refreshSent, applied>>

(***************************************************************************)
(* ApiClient._try_refresh_token (reactive refresh, under the lock)         *)
(***************************************************************************)
\* the refresh endpoint's call: post("/addon-refresh-token",
\* require_auth=False) with the default max_retries
RefreshCall(token) == PostFrame("refresh", FALSE, DefaultMaxRetries, token)

\* result.get('success') and result.get('access_token') (lines 336-341)
RefreshSucceeded(r) ==
    r.t = "ok" /\ r.data.success /\ r.data.access # NoToken

\* the stored refresh token replaced by whatever the response holds
NewCredentialDroppingRefresh(r, refresh_token, expires) ==
    [access |-> r.data.access, refresh |-> r.data.refresh,
     expires |-> expires]

\* what config.save_tokens is given (lines 337-339, 343)
NewCredential(r, refresh_token, expires) ==
    [access |-> r.data.access,
     refresh |-> IF r.data.refresh # NoToken THEN r.data.refresh
                 ELSE refresh_token,
     expires |-> expires]

\* a refresh token taken to be there always
HasRefreshTokenAlways(rt) == TRUE

\* `if not refresh_token` negated (lines 328, 942)
HasRefreshToken(rt) == rt # NoToken

\* with self._refresh_lock: read the stored refresh token, call the endpoint
TryAcquire(t) ==
    /\ InFrame(t, "try", "acquire")
    /\ UNCHANGED facade
    /\ lock = NoThread
    /\ IF ~HasRefreshToken(store.refresh)
       THEN /\ Leave(t, Top(t), BoolRes(FALSE))
            /\ UNCHANGED lock
       ELSE /\ lock' = t
            /\ stack' = Push(t, [Top(t) EXCEPT !.pc = "call",
                                    !.rt = store.refresh],
                             RefreshCall(access_token))
            /\ UNCHANGED <<ret, done>>
    /\ UNCHANGED <<access_token, store, has_requests, issued, refreshSent,
                   applied>>

\* the endpoint's call returned or raised: persist the new credential
TryResult(t, saved, exp) ==
    /\ InFrame(t, "try", "call")
    /\ UNCHANGED facade
    /\ ret[t].t # "none"
    /\ IF RefreshSucceeded(ret[t]) /\ saved
       THEN /\ store' = NewCredential(ret[t], Top(t).rt, exp)
            /\ stack' = SetTop(t, [Top(t) EXCEPT !.pc = "set",
                                      !.new = ret[t].data])
            /\ ret' = [ret EXCEPT ![t] = NoRes]
            /\ UNCHANGED <<lock, done>>
       ELSE /\ lock' = NoThread
            /\ Leave(t, Top(t), BoolRes(FALSE))
            /\ UNCHANGED store
    /\ UNCHANGED <<access_token, has_requests, issued, refreshSent, applied>>

\* self.access_token = new_access; return True (leaving the with block)
TrySet(t) ==
    /\ InFrame(t, "try", "set")
    /\ UNCHANGED facade
    /\ access_token' = Top(t).new.access
    /\ lock' = NoThread
    /\ Leave(t, Top(t), BoolRes(TRUE))
    /\ UNCHANGED <<store, has_requests, issued, refreshSent, applied>>

(***************************************************************************)
(* set_access_token and ensure_valid_token (module level)                  *)
(***************************************************************************)
\* set_access_token(token)
SetAccessToken(t, token) ==
    /\ Idle(t)
    /\ UNCHANGED facade
    /\ access_token' = token
    /\ done' = [done EXCEPT ![t] =
                   [fr |-> [f |-> "set", pc |-> "left"],
                    res |-> BoolRes(TRUE)]]
    /\ UNCHANGED <<store, lock, has_requests, issued, stack, ret,
                   refreshSent, applied>>

\* a caller enters ensure_valid_token
CallEnsure(t) ==
    /\ Idle(t)
    /\ UNCHANGED facade
    /\ stack' = [stack EXCEPT ![t] =
                    <<[EnsureFrame EXCEPT !.mem = access_token]>>]
    /\ UNCHANGED <<access_token, store, lock, has_requests, issued, ret, done,
                   refreshSent, applied>>

\* token = config.get_access_token(); expires_at = config.get("expires_at")
EnsureStart(t) ==
    /\ InFrame(t, "ensure", "start")
    /\ UNCHANGED facade
    /\ IF store.access = NoToken
       THEN Leave(t, Top(t), BoolRes(FALSE))
       ELSE /\ stack' = SetTop(t, [Top(t) EXCEPT !.pc = "check",
                                      !.tok = store.access,
                                      !.exp = store.expires])
            /\ UNCHANGED <<ret, done>>
    /\ UNCHANGED <<access_token, store, lock, has_requests, issued,
                   refreshSent, applied>>

\* the expiry check, then set_access_token(token) or the refresh call
EnsureCheck(t, now) ==
    /\ InFrame(t, "ensure", "check")
    /\ UNCHANGED facade
    /\ LET fr == [Top(t) EXCEPT !.checked = TRUE, !.now = now,
                       !.expired = CheckTokenExpiry(Top(t).exp, now)]
       IN IF ~fr.expired
          THEN /\ access_token' = fr.tok
               /\ Leave(t, fr, BoolRes(TRUE))
          ELSE /\ IF ~HasRefreshToken(store.refresh)
                  THEN Leave(t, fr, BoolRes(FALSE))
                  ELSE /\ stack' = Push(t, [fr EXCEPT !.pc = "call",
                                                !.rt = store.refresh],
                                        RefreshCall(access_token))
                       /\ UNCHANGED <<ret, done>>
               /\ UNCHANGED access_token
    /\ UNCHANGED <<store, lock, has_requests, issued, refreshSent, applied>>

\* api.refresh_token returned or raised: persist the new credential
EnsureResult(t, exp) ==
    /\ InFrame(t, "ensure", "call")
    /\ UNCHANGED facade
    /\ ret[t].t # "none"
    /\ IF RefreshSucceeded(ret[t])
       THEN /\ store' = NewCredential(ret[t], Top(t).rt, exp)
            /\ stack' = SetTop(t, [Top(t) EXCEPT !.pc = "set",
                                      !.new = ret[t].data])
            /\ ret' = [ret EXCEPT ![t] = NoRes]
            /\ UNCHANGED done
       ELSE /\ Leave(t, Top(t), BoolRes(FALSE))
            /\ UNCHANGED store
    /\ UNCHANGED <<access_token, lock, has_requests, issued, refreshSent,
                   applied>>

\* set_access_token(new_token); return True
EnsureSet(t) ==
    /\ InFrame(t, "ensure", "set")
    /\ UNCHANGED facade
    /\ access_token' = Top(t).new.access
    /\ Leave(t, Top(t), BoolRes(TRUE))
    /\ UNCHANGED <<store, lock, has_requests, issued, refreshSent, applied>>

(***************************************************************************)
(* The program: each thread makes one call on the shared client            *)
(***************************************************************************)
\* the facade operations, with the auth flag each passes to post
Operations == {<<"data", TRUE>>, <<"write", TRUE>>, <<"login", FALSE>>}
ExpiryVals == {NoExpiry, 1}
Clock == {0, 1}

\* one step of thread t, the network answering from H, callers calling
\* the operations Ops with max_retries from M, random.random() sampled from
\* K, the backend dating the credentials it issues from E
Step(t, H, Ops, M, K, E) ==
    \/ \E op \in Ops, max \in M : CallPost(t, op[1], op[2], max)
    \/ Send(t)
    \/ LoopExit(t)
    \/ \E h \in H : Transport(t, h)
    \/ \E k \in K : Handle(t, k)
    \/ \E k \in K : AfterRefresh(t, k)
    \/ TryAcquire(t)
    \/ \E saved \in BOOLEAN, exp \in E : TryResult(t, saved, exp)
    \/ TrySet(t)
    \/ \E token \in {NoToken, store.access} : SetAccessToken(t, token)
    \/ CallEnsure(t)
    \/ EnsureStart(t)
    \/ \E now \in Clock : EnsureCheck(t, now)
    \/ \E exp \in E : EnsureResult(t, exp)
    \/ EnsureSet(t)

\* One caller, every outcome of the network, every max_retries, the
\* smallest and the largest sample of random.random()
Next ==
    Step(1, HttpOutcomes, Operations, 1 .. MaxRetries, {0, JitterDen - 1},
         ExpiryVals)

Spec == Init /\ [][Next]_vars

\* Two callers sharing the client; the network answers 200, 401 or 500
ConcOutcomes ==
    [net : {"ok"}, status : {200, 401, 500}, body : {"json"}, ra : {RaAbsent}]

NextConc ==
    \E t \in Threads : Step(t, ConcOutcomes, {<<"data", TRUE>>}, {1, 2}, {0}, {1})

InitConc == Init /\ has_requests /\ store.refresh = InitTok

SpecConc == InitConc /\ [][NextConc]_vars

(***************************************************************************)
(* ensure_valid_token over every state of the credential store             *)
(***************************************************************************)
\* the stored expiry: missing, unparseable, or the time 1
StoredExpiryVals == {NoExpiry, BadExpiry, 1}

\* a client built with or without a token; the store may hold no access
\* token, no refresh token, any expiry
InitEnsure ==
    /\ pull = NoPull
    /\ bulk = NoBulk
    /\ calc = NoCalc
    /\ download = NoDownload
    /\ access_token \in {NoToken, InitTok}
    /\ store \in [access : {NoToken, InitTok}, refresh : {NoToken, InitTok},
                  expires : StoredExpiryVals]
    /\ lock = NoThread
    /\ has_requests \in BOOLEAN
    /\ issued = 0
    /\ stack = [t \in Threads |-> <<>>]
    /\ ret = [t \in Threads |-> NoRes]
    /\ done = [t \in Threads |-> NotDone]
    /\ refreshSent = 0
    /\ applied = [t \in Threads |-> 0]

\* the network answers 200, 401 or 500
EnsureOutcomes ==
    [net : {"ok"}, status : {200, 401, 500}, body : {"json"}, ra : {RaAbsent}]

NextEnsure ==
    Step(1, EnsureOutcomes, Operations, {1, 2}, {0}, StoredExpiryVals)

SpecEnsure == InitEnsure /\ [][NextEnsure]_vars

(***************************************************************************)
(* ApiClient.pull_all_cards (paginated download of a deck)                 *)
(***************************************************************************)
\* The deck is the cards 1 .. pull.deck; the backend answers a request for
\* `offset` with the slice of the deck that starts there, as many cards as
\* it likes up to the limit, and with whatever has_more, next_offset and
\* metadata it likes.  The page size of the code is 1000 (line 699); the
\* model pages by PageLimit.
\* the most pages one pull may request: those of the largest deck, and the
\* empty page after a full last page
MaxPages == (MaxCards \div PageLimit) + 1

NoTotal == -1
HasMoreVals == {"true", "false", "absent"}
MetaVals == {1, 2}

Remaining(deck, offset) == IF offset < deck THEN deck - offset ELSE 0

\* result['cards'] of the page at `offset` holding `count` cards
PageCards(offset, count) == [i \in 1 .. count |-> offset + i]

\* the pages pull_changes can return for a request at `offset`
PullResponses(deck, offset) ==
    UNION {[success : BOOLEAN, count : {c}, has_more : HasMoreVals,
            next_offset : {NoOffset, 0, offset + c}, meta : MetaVals,
            total : {NoTotal, deck}] :
           c \in 0 .. Min(PageLimit, Remaining(deck, offset))}

\* keeping only the page just fetched
ExtendKeepingLast(all, cards) == cards

\* all_cards.extend(cards) (line 713)
Extend(all, cards) == all \o cards

\* result.get('total_cards', len(cards)) (line 717)
DeclaredTotal(resp) == IF resp.total = NoTotal THEN resp.count ELSE resp.total

\* has_more as the server reported it
HasMoreAsReported(resp) == resp.has_more = "true"

\* has_more = result.get('has_more', False), forced to True by a full page
\* (lines 725-727)
HasMore(resp) == resp.has_more = "true" \/ resp.count = PageLimit

\* leaving the loop only when has_more is false
BreakOnHasMoreOnly(resp) == ~HasMore(resp)

\* the loop's exit test (line 729)
Break(resp) == ~HasMore(resp) \/ resp.count = 0

\* always stepping by the page size
NextOffsetIgnoringServer(resp, offset) == offset + PageLimit

\* result.get('next_offset', offset + limit) (line 732)
NextOffset(resp, offset) ==
    IF resp.next_offset = NoOffset THEN offset + PageLimit
    ELSE resp.next_offset

\* the page is the one a backend with a stable view of the deck serves:
\* cards while cards remain, has_more=true while more remain after it, and
\* the offset after the page declared whenever the page is short
StablePage(deck, offset, resp) ==
    /\ resp.success
    /\ Remaining(deck, offset) > 0 => resp.count > 0
    /\ offset + resp.count < deck =>
          /\ resp.has_more = "true"
          /\ resp.count = PageLimit \/ resp.next_offset = offset + resp.count
    /\ resp.next_offset \in {NoOffset, offset + resp.count}

PageSummary(resp) ==
    [success |-> resp.success, count |-> resp.count,
     has_more |-> resp.has_more, meta |-> resp.meta,
     total |-> DeclaredTotal(resp)]

LastPage(resp) ==
    [success |-> resp.success, count |-> resp.count,
     has_more |-> resp.has_more, next_offset |-> resp.next_offset]

\* every page taken as a success
PageOkAlways(resp) == TRUE

\* result.get('success') (line 709)
PageOk(resp) == resp.success

\* a caller enters pull_all_cards, with or without a progress callback
CallPullAllCards(observer) ==
    /\ pull.pc = "idle"
    /\ pull' = [pull EXCEPT !.pc = "loop", !.observer = observer]
    /\ UNCHANGED <<engine, bulk, calc, download>>

\* one iteration of the loop: pull_changes returns a page (lines 702-732)
PullPage(resp) ==
    /\ pull.pc = "loop"
    /\ Len(pull.reqs) < MaxPages
    /\ LET reqs == Append(pull.reqs, pull.offset)
           first == IF pull.reqs = <<>> THEN PageSummary(resp)
                    ELSE pull.first
           all == Extend(pull.all_cards, PageCards(pull.offset, resp.count))
           capture == pull.offset = 0
           total == IF capture THEN DeclaredTotal(resp)
                    ELSE pull.total_cards
       IN IF ~PageOk(resp)
          THEN pull' = [pull EXCEPT !.pc = "returned", !.result = "failure",
                                    !.reqs = reqs, !.first = first,
                                    !.last = LastPage(resp),
                                    !.stable = FALSE]
          ELSE pull' = [pull EXCEPT
                  !.all_cards = all,
                  !.note_types = IF capture THEN resp.meta ELSE @,
                  !.latest_change_id = IF capture THEN resp.meta ELSE @,
                  !.total_cards = total,
                  !.obs = IF pull.observer
                          THEN Append(@, <<Len(all), total>>) ELSE @,
                  !.pc = IF Break(resp) THEN "returned" ELSE "loop",
                  !.result = IF Break(resp) THEN "aggregate" ELSE @,
                  !.offset = IF Break(resp) THEN @
                             ELSE NextOffset(resp, pull.offset),
                  !.reqs = reqs, !.first = first,
                  !.last = LastPage(resp),
                  !.stable = @ /\ StablePage(pull.deck, pull.offset, resp)]
    /\ UNCHANGED <<engine, bulk, calc, download>>

\* pull_changes raises: the error leaves pull_all_cards (no handler)
PullRaises ==
    /\ pull.pc = "loop"
    /\ Len(pull.reqs) < MaxPages
    /\ pull' = [pull EXCEPT !.pc = "raised", !.result = "error",
                            !.reqs = Append(@, pull.offset),
                            !.stable = FALSE]
    /\ UNCHANGED <<engine, bulk, calc, download>>

NextPull ==
    \/ \E observer \in BOOLEAN : CallPullAllCards(observer)
    \/ \E resp \in PullResponses(pull.deck, pull.offset) : PullPage(resp)
    \/ PullRaises

\* the request engine at rest, the deck of any size up to MaxCards
AtRest ==
    /\ access_token = InitTok
    /\ store = [access |-> InitTok, refresh |-> InitTok, expires |-> NoExpiry]
    /\ lock = NoThread
    /\ has_requests = TRUE
    /\ issued = 0
    /\ stack = [t \in Threads |-> <<>>]
    /\ ret = [t \in Threads |-> NoRes]
    /\ done = [t \in Threads |-> NotDone]
    /\ refreshSent = 0
    /\ applied = [t \in Threads |-> 0]

InitPull ==
    /\ pull \in {[NoPull EXCEPT !.deck = n] : n \in 0 .. MaxCards}
    /\ bulk = NoBulk
    /\ calc = NoCalc
    /\ download = NoDownload
    /\ AtRest

SpecPull == InitPull /\ [][NextPull]_vars

\* a backend honouring offset and limit: the page requested at `offset`
\* holds the cards from there on, up to the limit, and the next offset it
\* declares, when it declares one, is the offset after them
Honours(deck, offset, resp) ==
    /\ resp.success
    /\ resp.count = Min(PageLimit, Remaining(deck, offset))
    /\ resp.next_offset \in {NoOffset, offset + resp.count}

\* the decks such a backend serves in at most MaxPages pages, the empty
\* page that ends the pull included
ServedDecks == 0 .. PageLimit * (MaxCards \div PageLimit)

InitPullServed == InitPull /\ pull.deck \in ServedDecks

\* every request is answered, has_more and the metadata being whatever the
\* backend says
NextPullServed ==
    \/ \E observer \in BOOLEAN : CallPullAllCards(observer)
    \/ \E resp \in PullResponses(pull.deck, pull.offset) :
          Honours(pull.deck, pull.offset, resp) /\ PullPage(resp)

\* pull_all_cards is called and every request it makes is answered
SpecPullServed ==
    InitPullServed /\ [][NextPullServed]_vars /\ WF_vars(NextPullServed)

(***************************************************************************)
(* batch_download_decks and push_deck_cards (size-limited operations)      *)
(***************************************************************************)
\* the limit counted as exceeded already when it is reached
OversizedInclusive(n, max) == n >= max

\* len(deck_ids) > 10, len(cards) > 500 (lines 519, 889)
Oversized(n, max) == n > max

\* raise ValueError(...), or return self.post(path, json_body=...)
BulkCall(t, op, n, max) ==
    /\ Idle(t)
    /\ bulk.pc = "idle"
    /\ IF Oversized(n, max)
       THEN /\ bulk' = [pc |-> "raised", op |-> op, n |-> n]
            /\ done' = [done EXCEPT ![t] =
                           [fr |-> [f |-> op, pc |-> "left"],
                            res |-> Res("exc", NoStatus, 0, FALSE,
                                        "ValueError", NoData)]]
            /\ UNCHANGED stack
       ELSE /\ bulk' = [pc |-> "posted", op |-> op, n |-> n]
            /\ stack' = [stack EXCEPT ![t] =
                  <<PostFrame(op, TRUE, DefaultMaxRetries, access_token)>>]
            /\ UNCHANGED done
    /\ UNCHANGED <<access_token, store, lock, has_requests, issued, ret,
                   refreshSent, applied, pull, calc, download>>

\* batch_download_decks(deck_ids) with n deck ids
BatchDownloadDecks(t, n) == BulkCall(t, "batch", n, MaxDecksPerBatch)

\* push_deck_cards(deck_id, cards) with n cards
PushDeckCards(t, n) == BulkCall(t, "cards", n, MaxCardsPerPush)

\* the sizes callers pass: every size around the limit, and none
DeckCounts == 0 .. MaxDecksPerBatch + 1
CardCounts == {0} \cup (MaxCardsPerPush - 2 .. MaxCardsPerPush + 2)

\* the network answers 200 or 401
BulkOutcomes ==
    [net : {"ok"}, status : {200, 401}, body : {"json"}, ra : {RaAbsent}]

NextBulk ==
    \/ \E n \in DeckCounts : BatchDownloadDecks(1, n)
    \/ \E n \in CardCounts : PushDeckCards(1, n)
    \/ Step(1, BulkOutcomes, {<<"data", TRUE>>}, {1}, {0}, {1})

SpecBulk == Init /\ [][NextBulk]_vars

(***************************************************************************)
(* exponential_backoff_with_jitter over the attempts of one call           *)
(***************************************************************************)
\* the delay before the next retry is computed and slept: attempt 0 first,
\* then 1, 2, ..., each with its own sample of random.random()
NextDelay(k) ==
    LET attempt == IF calc.pc = "idle" THEN 0 ELSE NextAttempt(calc.attempt)
        delay == ExponentialBackoffWithJitter(attempt, k)
    IN /\ attempt < MaxAttempts
       /\ calc' = [pc |-> "slept", attempt |-> attempt, k |-> k,
                   delay |-> delay, slept |-> calc.slept + delay]
       /\ UNCHANGED <<engine, pull, bulk, download>>

NextBackoff == \E k \in 0 .. JitterDen - 1 : NextDelay(k)

InitBackoff ==
    /\ pull = NoPull
    /\ bulk = NoBulk
    /\ calc = NoCalc
    /\ download = NoDownload
    /\ AtRest

SpecBackoff == InitBackoff /\ [][NextBackoff]_vars

(***************************************************************************)
(* ApiClient.download_deck_file (GET of the deck file at a signed URL)     *)
(***************************************************************************)
\* the download_url callers pass: none, not an http(s) URL, a URL
DownloadUrls == {"", "path", "https"}

\* what comes back for the GET: no response, or a status, a Content-Type
\* (a ZIP, an HTML page, a JSON document, none) and a body of `len` bytes
ContentTypes == {"application/zip", "text/html", "application/json", ""}
MaxBody == 2
GetResponses ==
    [net : {"timeout", "connerr"}, status : {NoStatus}, ctype : {""},
     len : {0}]
    \cup [net : {"ok"}, status : {200, 404}, ctype : ContentTypes,
          len : 0 .. MaxBody]

\* "text/html" in content_type or "application/json" in content_type
IsErrorPage(ctype) == ctype \in {"text/html", "application/json"}

\* the caller enters download_deck_file: the URL is validated (526-539)
CallDownload(url) ==
    /\ download.pc = "idle"
    /\ download' =
          IF url = ""
          THEN [download EXCEPT !.pc = "raised", !.url = url,
                                !.error = "url_required"]
          ELSE IF url # "https"
          THEN [download EXCEPT !.pc = "raised", !.url = url,
                                !.error = "url_format"]
          ELSE [download EXCEPT !.pc = "get", !.url = url]
    /\ UNCHANGED <<engine, pull, bulk, calc>>

\* the GET goes out: urllib Request(download_url, method="GET") or
\* requests.get(download_url, ...), neither given any header
SendGet ==
    /\ download.pc = "get"
    /\ download' = [download EXCEPT !.pc = "sent",
                                    !.authorization = NoToken]
    /\ UNCHANGED <<engine, pull, bulk, calc>>

\* the urllib branch (lines 542-550): the body is read and only its
\* length is tested
DownloadWithUrllib(h) ==
    IF h.net # "ok" \/ h.status >= 400
    THEN [download EXCEPT !.pc = "raised", !.resp = h, !.error = "network"]
    ELSE IF h.len = 0
    THEN [download EXCEPT !.pc = "raised", !.resp = h, !.error = "network"]
    ELSE [download EXCEPT !.pc = "returned", !.resp = h, !.content = h.len]

\* the requests branch (lines 553-599): status, Content-Type and length
\* are tested in turn
DownloadWithRequests(h) ==
    IF h.net # "ok"
    THEN [download EXCEPT !.pc = "raised", !.resp = h, !.error = "network"]
    ELSE IF h.status >= 400
    THEN [download EXCEPT !.pc = "raised", !.resp = h, !.error = "http"]
    ELSE IF IsErrorPage(h.ctype)
    THEN [download EXCEPT !.pc = "raised", !.resp = h,
                          !.error = "unexpected"]
    ELSE IF h.len = 0
    THEN [download EXCEPT !.pc = "raised", !.resp = h,
                          !.error = "unexpected"]
    ELSE [download EXCEPT !.pc = "returned", !.resp = h, !.content = h.len]

\* the response to the GET arrives and download_deck_file ends
ReceiveGet(h) ==
    /\ download.pc = "sent"
    /\ download' = IF has_requests THEN DownloadWithRequests(h)
                   ELSE DownloadWithUrllib(h)
    /\ UNCHANGED <<engine, pull, bulk, calc>>

NextDownload ==
    \/ \E url \in DownloadUrls : CallDownload(url)
    \/ SendGet
    \/ \E h \in GetResponses : ReceiveGet(h)

\* a client holding a token or none, built on either transport
InitDownload ==
    /\ pull = NoPull
    /\ bulk = NoBulk
    /\ calc = NoCalc
    /\ download = NoDownload
    /\ access_token \in {NoToken, InitTok}
    /\ store = [access |-> InitTok, refresh |-> InitTok, expires |-> NoExpiry]
    /\ lock = NoThread
    /\ has_requests \in BOOLEAN
    /\ issued = 0
    /\ stack = [t \in Threads |-> <<>>]
    /\ ret = [t \in Threads |-> NoRes]
    /\ done = [t \in Threads |-> NotDone]
    /\ refreshSent = 0
    /\ applied = [t \in Threads |-> 0]

SpecDownload == InitDownload /\ [][NextDownload]_vars

(***************************************************************************)
(* Vocabulary of the properties                                            *)
(***************************************************************************)
\* the frames of thread t: those on its stack and its finished call
FramesOf(t) == {stack[t][i] : i \in 1 .. Depth(t)} \cup {done[t].fr}
PostFramesOf(t) == {fr \in FramesOf(t) : fr.f = "post"}
PostFrames == UNION {PostFramesOf(t) : t \in Threads}

\* thread t finished a call of post
Finished(t) == done[t].fr.f = "post"

\* the refresh post triggered returned true: post went on to `continue`
RefreshedOk(fr) == fr.refreshes >= 1 /\ fr.attempt >= 1

\* attempt i (from 1) of the frame has been handled by the except clauses
Handled(fr, i) == Len(fr.hist) >= i /\ (fr.attempt >= i \/ fr.pc = "left")

\* a client error: a parsed response with a 4xx status that is neither an
\* auth error nor a rate limit
IsClientError(x) ==
    /\ x.t = "api" /\ ~x.inv
    /\ 400 <= x.status /\ x.status < 500
    /\ x.status \notin {401, 403, 429}

\* attempt i (from 1) of the frame ended the call: nothing was sent after
\* it, the loop did not advance, no sleep and no refresh followed it
EndedAt(fr, i) ==
    /\ i = Len(fr.hist)
    /\ fr.sends = i
    /\ fr.attempt = i - 1
    /\ fr.pc \in {"handle", "left"}
    /\ \A j \in 1 .. Len(fr.sleeps) : fr.sleeps[j].after < i - 1
    /\ i = 1 => fr.sleeps = <<>> /\ fr.refreshes = 0

\* the stored expiry parses to a time that `now` has reached
ExpiredAt(exp, now) == exp \notin {NoExpiry, BadExpiry} /\ now >= exp

\* a connectivity failure: no response came back
IsConnFailure(x) == x.net \in {"timeout", "connerr", "other"}

\* a request to /addon-refresh-token of thread t is on the wire
RefreshInFlight(t) ==
    \E i \in 1 .. Depth(t) :
        /\ stack[t][i].f = "post"
        /\ stack[t][i].path = "refresh"
        /\ stack[t][i].pc = "recv"

(***************************************************************************)
(* C1.  N callers that trigger a refresh against the same credential       *)
(* cause exactly one request to the refresh endpoint, and all of them go   *)
(* on with the same new credential.                                        *)
(***************************************************************************)
C1_OneRefreshForAll ==
    (\A t \in Threads :
        /\ Finished(t)
        /\ RefreshedOk(done[t].fr)
        /\ done[t].fr.sends >= 2
        /\ done[t].fr.trigMem = InitTok)
    => /\ refreshSent = 1
       /\ \A t, u \in Threads : done[t].fr.hdr = done[u].fr.hdr

(***************************************************************************)
(* C2.  At most one request to /addon-refresh-token is in flight at any    *)
(* time, whoever triggered it (_try_refresh_token or ensure_valid_token).  *)
(***************************************************************************)
C2_OneRefreshInFlight ==
    Cardinality({t \in Threads : RefreshInFlight(t)}) <= 1

(***************************************************************************)
(* C3.  One call of post invokes _try_refresh_token at most once, whatever *)
(* max_retries is and whatever the transport answers.                      *)
(***************************************************************************)
C3_RefreshAtMostOnce == \A fr \in PostFrames : fr.refreshes <= 1

\* a second auth failure arrived after the refresh of the first one
C3_Witness ==
    \E fr \in PostFrames :
        /\ fr.refreshes = 1
        /\ Len(fr.hist) = 3
        /\ IsAuthError(fr.hist[1])
        /\ IsAuthError(fr.hist[3])

(***************************************************************************)
(* C4.  For every max_retries >= 1: an auth failure on the first attempt   *)
(* followed by a successful refresh is retried once, with no sleep before  *)
(* the retry, and when the retry succeeds post made exactly 2 transport    *)
(* calls and returns the retried response.                                 *)
(***************************************************************************)
C4_AuthRetryEveryMax ==
    \A t \in Threads :
        LET fr == done[t].fr IN
        (/\ Finished(t)
         /\ IsAuthError(fr.hist[1])
         /\ RefreshedOk(fr))
        => /\ fr.sends >= 2
           /\ \A j \in 1 .. Len(fr.sleeps) : fr.sleeps[j].after # 0
           /\ fr.hist[2].t = "ok"
                => fr.sends = 2 /\ done[t].res.t = "ok"

(***************************************************************************)
(* C5.  A rate-limit error with retry_after = r on an attempt that is not  *)
(* the last makes post sleep exactly r seconds and attempt again, using up *)
(* one attempt; on the last attempt post raises that error, with its       *)
(* retry_after.                                                            *)
(***************************************************************************)
C5_RateLimitSleepsExactly ==
    \A t \in Threads : \A fr \in PostFramesOf(t) :
        \A i \in 1 .. Len(fr.hist) :
            (fr.hist[i].t = "rate" /\ Handled(fr, i)) =>
                IF i < fr.max
                THEN /\ fr.attempt >= i
                     /\ \E j \in 1 .. Len(fr.sleeps) :
                            fr.sleeps[j] = [kind |-> "rate",
                                            ms |-> 1000 * fr.hist[i].ra,
                                            after |-> i - 1]
                     /\ \A j \in 1 .. Len(fr.sleeps) :
                            fr.sleeps[j].after = i - 1
                                => fr.sleeps[j].kind = "rate"
                     /\ fr.sends > i \/ (fr.pc = "send" /\ fr.attempt = i)
                ELSE /\ fr.pc = "left"
                     /\ fr.sends = fr.max
                     /\ fr = done[t].fr =>
                            /\ done[t].res.t = "rate"
                            /\ done[t].res.status = 429
                            /\ done[t].res.ra = fr.hist[i].ra

\* a call slept the 5 s of a Retry-After header and its next attempt succeeded
C5_Witness ==
    \E fr \in PostFrames :
        /\ fr.pc = "left"
        /\ Len(fr.hist) = 2
        /\ fr.hist[1].t = "rate" /\ fr.hist[1].ra = 5
        /\ fr.hist[2].t = "ok"
        /\ fr.sleeps = <<[kind |-> "rate", ms |-> 5000, after |-> 0]>>

(***************************************************************************)
(* C6.  A connectivity failure is retried: post raises it only once        *)
(* max_retries transport calls were made.                                  *)
(***************************************************************************)
C6_ConnFailureRetried ==
    \A t \in Threads :
        LET fr == done[t].fr IN
        (/\ Finished(t)
         /\ Len(fr.hist) >= 1
         /\ IsConnFailure(fr.hist[Len(fr.hist)])
         /\ done[t].res.t # "ok")
        => fr.sends = fr.max

(***************************************************************************)
(* C7.  When every attempt ends in a server error (5xx), post makes        *)
(* exactly max_retries transport calls, sleeps a backoff delay between     *)
(* consecutive calls, and raises the last server error itself, with its    *)
(* status code.                                                            *)
(***************************************************************************)
C7_ServerErrorExhaustion ==
    \A t \in Threads : \A fr \in PostFramesOf(t) :
        (\A i \in 1 .. Len(fr.hist) : IsServerError(fr.hist[i])) =>
            /\ Len(fr.sleeps) = fr.attempt
            /\ \A j \in 1 .. Len(fr.sleeps) :
                  /\ fr.sleeps[j].kind = "backoff"
                  /\ fr.sleeps[j].after = j - 1
                  /\ 2 * fr.sleeps[j].ms >=
                        Min(BaseDelayMs * Pow2(j - 1), MaxDelayMs)
                  /\ fr.sleeps[j].ms <=
                        Min(BaseDelayMs * Pow2(j - 1), MaxDelayMs)
            /\ fr.pc = "left" =>
                  /\ fr.sends = fr.max
                  /\ Len(fr.hist) = fr.max
                  /\ fr = done[t].fr =>
                        /\ done[t].res.t = "api"
                        /\ done[t].res.msg \in {"http", "invalid"}
                        /\ done[t].res.status = fr.hist[fr.max].status
                        /\ IsServerError(done[t].res)

\* a call with max_retries = 3 ended after three server errors
C7_Witness ==
    \E t \in Threads :
        /\ Finished(t)
        /\ done[t].fr.max = 3
        /\ Len(done[t].fr.hist) = 3
        /\ \A i \in 1 .. 3 : IsServerError(done[t].fr.hist[i])
        /\ Len(done[t].fr.sleeps) = 2

(***************************************************************************)
(* C8.  The retries of post never make the backend apply a write more      *)
(* than once.                                                              *)
(***************************************************************************)
C8_WriteAppliedOnce == \A t \in Threads : applied[t] <= 1

(***************************************************************************)
(* C9.  A call of post with max_retries = n makes at most n transport      *)
(* calls for its own path, whatever the outcomes are.                      *)
(***************************************************************************)
C9_SendsBounded == \A fr \in PostFrames : fr.sends <= fr.max

\* a call used all three attempts, one of them after a refresh
C9_Witness ==
    \E fr \in PostFrames :
        /\ fr.max = 3 /\ fr.sends = 3
        /\ fr.refreshes = 1
        /\ fr.pc = "left"

(***************************************************************************)
(* C10.  Every call runs to completion: while a call is in progress the    *)
(* program can take a step (no call is stuck), whatever the backend        *)
(* answers, the refresh endpoint's own 401/403 included.                   *)
(***************************************************************************)
C10_RunsToCompletion ==
    (\E t \in Threads : stack[t] # <<>>) => ENABLED Next

(***************************************************************************)
(* C11. Against a backend whose offset/limit view of the deck is stable    *)
(* and which reports has_more=true on every page but the last,             *)
(* pull_all_cards returns the concatenation of the pages in page order:    *)
(* every card of the deck exactly once, none lost, none duplicated.        *)
(* While the pull is running, what it has gathered is the deck's prefix    *)
(* up to the next offset, or the whole deck.                               *)
(***************************************************************************)
C11_NoDupNoLoss ==
    pull.stable /\ pull.pc \in {"loop", "returned"} =>
        /\ pull.all_cards = PageCards(0, Len(pull.all_cards))
        /\ pull.pc = "loop" =>
              \/ pull.offset = Len(pull.all_cards)
              \/ Len(pull.all_cards) = pull.deck /\ pull.offset >= pull.deck
        /\ pull.pc = "returned" =>
              pull.result = "aggregate" /\ Len(pull.all_cards) = pull.deck

\* three pages of sizes PageLimit, PageLimit and one gave the whole deck
C11_Witness ==
    /\ pull.pc = "returned" /\ pull.result = "aggregate" /\ pull.stable
    /\ pull.deck = 2 * PageLimit + 1
    /\ pull.reqs = <<0, PageLimit, 2 * PageLimit>>
    /\ Len(pull.all_cards) = pull.deck

(***************************************************************************)
(* C12. When a page holds exactly `limit` cards and its has_more is absent *)
(* or false, pull_all_cards goes on to request the next page; it returns   *)
(* its aggregate only after a page that is empty, or short of the limit    *)
(* with has_more not true.                                                 *)
(***************************************************************************)
C12_FullPageContinues ==
    /\ (/\ pull.pc \in {"loop", "returned"}
        /\ pull.reqs # <<>>
        /\ pull.result # "failure"
        /\ pull.last.count = PageLimit
        /\ pull.last.has_more # "true") => pull.pc = "loop"
    /\ pull.pc = "returned" /\ pull.result = "aggregate" =>
          \/ pull.last.count = 0
          \/ pull.last.count < PageLimit /\ pull.last.has_more # "true"

\* a full first page said has_more=false and the pull is still running,
\* about to request the page after it
C12_Witness ==
    /\ pull.pc = "loop"
    /\ pull.reqs = <<0>>
    /\ pull.last.count = PageLimit
    /\ pull.last.has_more = "false"
    /\ pull.offset = PageLimit

(***************************************************************************)
(* C13. Whatever pages the backend sends, the note types, the latest       *)
(* change id and the declared total that pull_all_cards holds (and reports *)
(* to the observer) are those of the first page fetched: no later page     *)
(* overwrites them.                                                        *)
(***************************************************************************)
C13_FirstPageMetadata ==
    pull.pc \in {"loop", "returned"} /\ pull.first.success =>
        /\ pull.note_types = pull.first.meta
        /\ pull.latest_change_id = pull.first.meta
        /\ pull.total_cards = pull.first.total
        /\ \A i \in 1 .. Len(pull.obs) : pull.obs[i][2] = pull.first.total

(***************************************************************************)
(* C14. batch_download_decks with more than 10 deck ids and                *)
(* push_deck_cards with more than 500 cards raise a local validation error *)
(* before any transport call is made; with at most 10 deck ids or at most  *)
(* 500 cards (exactly 10, exactly 500 included) the request is handed to   *)
(* post and sent.                                                          *)
(***************************************************************************)
C14_BulkLimits ==
    bulk.pc # "idle" =>
        LET max == IF bulk.op = "batch" THEN 10 ELSE 500
        IN IF bulk.n > max
           THEN /\ bulk.pc = "raised"
                /\ PostFramesOf(1) = {}
                /\ done[1].res.msg = "ValueError"
           ELSE /\ bulk.pc = "posted"
                /\ \E fr \in PostFramesOf(1) :
                      /\ fr.path = bulk.op
                      /\ fr.pc # "send" \/ fr.attempt > 0 => fr.sends >= 1

\* exactly 500 cards were pushed: the request was sent and post returned
C14_Witness ==
    /\ bulk = [pc |-> "posted", op |-> "cards", n |-> 500]
    /\ Finished(1)
    /\ done[1].fr.path = "cards"
    /\ done[1].fr.sends >= 1
    /\ done[1].res.t = "ok"

(***************************************************************************)
(* C15. Under either transport adapter, a response whose body cannot be    *)
(* parsed makes the adapter raise an invalid-response error that carries   *)
(* the status code received and a sample of the raw body: never another    *)
(* exception, never an error without the status code.                      *)
(***************************************************************************)
C15_InvalidResponseCarriesStatus ==
    [][\A h \in HttpResponses :
          h.body = "bad" /\ Transport(1, h) =>
              LET e == stack'[1][Depth(1)].e
              IN e.t = "api" /\ e.inv /\ e.status = h.status]_vars

(***************************************************************************)
(* C16. A client error (status 4xx other than 401, 403, 429) is never      *)
(* retried, for every max_retries >= 1: when it is the first response,     *)
(* post makes exactly one transport call, sleeps never, refreshes never,   *)
(* and raises that error with its status code; on a later attempt it ends  *)
(* the call the same way.                                                  *)
(***************************************************************************)
C16_ClientErrorNotRetried ==
    \A t \in Threads : \A fr \in PostFramesOf(t) :
        \A i \in 1 .. Len(fr.hist) :
            IsClientError(fr.hist[i]) =>
                /\ EndedAt(fr, i)
                /\ fr = done[t].fr =>
                      /\ done[t].res.t = "api"
                      /\ done[t].res.msg = "http"
                      /\ done[t].res.status = fr.hist[i].status

\* a call allowed three attempts ended on its first response, a 400
C16_Witness ==
    /\ Finished(1)
    /\ done[1].fr.max = 3
    /\ Len(done[1].fr.hist) = 1
    /\ IsClientError(done[1].fr.hist[1])
    /\ done[1].fr.sends = 1
    /\ done[1].res.status = 400

(***************************************************************************)
(* C17. A response whose body cannot be parsed is never retried and never  *)
(* triggers a credential refresh, whatever its status code (5xx, 401, 403, *)
(* 429 included): the attempt that received it ends the call, and post     *)
(* raises the invalid-response error.                                      *)
(***************************************************************************)
C17_InvalidResponseNotRetried ==
    \A t \in Threads : \A fr \in PostFramesOf(t) :
        \A i \in 1 .. Len(fr.hist) :
            fr.hist[i].inv =>
                /\ EndedAt(fr, i)
                /\ fr = done[t].fr => done[t].res.inv

(***************************************************************************)
(* C18. Whenever _try_refresh_token returns false, for whatever reason (no *)
(* refresh token stored, network failure, malformed response, response     *)
(* without success or without an access token, failure while persisting),  *)
(* the in-memory access token is the one post saw when it invoked the      *)
(* refresh.                                                                *)
(***************************************************************************)
C18_FailedRefreshKeepsToken ==
    \A t \in Threads :
        (/\ InFrame(t, "post", "refreshing")
         /\ ret[t].t = "bool"
         /\ ~ret[t].data.success) => access_token = Top(t).trigMem

\* the backend issued a new credential, persisting it failed, and the
\* refresh returned false
C18_Witness ==
    /\ InFrame(1, "post", "refreshing")
    /\ ret[1] = BoolRes(FALSE)
    /\ refreshSent >= 1
    /\ issued >= 1
    /\ access_token = InitTok

(***************************************************************************)
(* C19. The in-memory access token changes only while the refresh lock is  *)
(* held: set_access_token, ensure_valid_token and _try_refresh_token never *)
(* write access_token outside the lock.                                    *)
(***************************************************************************)
C19_WritesUnderLock ==
    [][access_token' # access_token => lock # NoThread]_vars

(***************************************************************************)
(* C20. For every attempt number, the delay d computed with base 1 s and   *)
(* cap 32 s satisfies 0.5 * min(base * 2^attempt, cap) <= d and            *)
(* d <= min(base * 2^attempt, cap); so d never exceeds the cap.            *)
(***************************************************************************)
C20_BackoffBounds ==
    calc.pc = "slept" =>
        LET term == Min(1000 * Pow2(calc.attempt), 32000)
        IN /\ 2 * calc.delay >= term
           /\ calc.delay <= term
           /\ calc.delay <= 32000

\* attempt 6, where 2^6 s is above the cap: the delay is half the cap
C20_Witness ==
    /\ calc.pc = "slept"
    /\ calc.attempt = 6
    /\ 1000 * Pow2(calc.attempt) > 32000
    /\ calc.delay = 16000

(***************************************************************************)
(* C21. The two transport adapters satisfy the same contract: for the same *)
(* HTTP outcome (status, body, Retry-After header, or connectivity         *)
(* failure) what _post_with_requests returns or raises is what             *)
(* _post_with_urllib returns or raises: the same parsed body, or an error  *)
(* of the same kind with the same status_code, retry_after and message.    *)
(***************************************************************************)
C21_AdaptersAgree ==
    [][\A h \in HttpOutcomes :
          Transport(1, h) =>
              \E d \in Bodies(Top(1).path, h) :
                  /\ stack'[1][Depth(1)].e = PostWithRequests(h, d)
                  /\ stack'[1][Depth(1)].e = PostWithUrllib(h, d)]_vars

(***************************************************************************)
(* C22. Every response with status 429 leaves the transport adapter as a   *)
(* rate-limit error whose retry_after is the integer value of the          *)
(* Retry-After header, or 60 when the header is absent or is not a valid   *)
(* integer.                                                                *)
(***************************************************************************)
C22_RateLimitedWithRetryAfter ==
    [][\A h \in HttpResponses :
          h.status = 429 /\ Transport(1, h) =>
              LET e == stack'[1][Depth(1)].e
              IN /\ e.t = "rate"
                 /\ e.status = 429
                 /\ e.ra = IF h.ra.kind = "int" THEN h.ra.val ELSE 60]_vars

(***************************************************************************)
(* C23. An auth error (401, 403) ends the call at once, with no further    *)
(* transport call and no sleep, when the refresh it triggered fails, when  *)
(* it comes on an attempt other than the first (after a retried server     *)
(* error or rate limit), or when it is the second auth error after a       *)
(* successful refresh; post raises that auth error.  The loop advances     *)
(* past an auth error only through the one refresh, and never sleeps       *)
(* after it.                                                               *)
(***************************************************************************)
C23_AuthErrorPropagates ==
    \A t \in Threads : \A fr \in PostFramesOf(t) :
        \A i \in 1 .. Len(fr.hist) :
            IsAuthError(fr.hist[i]) =>
                /\ \A j \in 1 .. Len(fr.sleeps) : fr.sleeps[j].after # i - 1
                /\ i >= 2 =>
                      /\ i = Len(fr.hist) /\ fr.sends = i
                      /\ fr.attempt = i - 1
                      /\ fr.pc \in {"handle", "left"}
                /\ i = 1 /\ fr.attempt >= 1 => fr.refreshes = 1
                /\ fr.pc = "left" /\ fr.attempt = i - 1 =>
                      /\ i = Len(fr.hist) /\ fr.sends = i
                      /\ fr = done[t].fr =>
                            /\ done[t].res.t = "api"
                            /\ done[t].res.status = fr.hist[i].status

\* the first 401 was answered by a successful refresh, the retry got 401
\* again, and post raised it after two transport calls and no sleep
C23_Witness ==
    /\ Finished(1)
    /\ done[1].fr.max = 3
    /\ Len(done[1].fr.hist) = 2
    /\ IsAuthError(done[1].fr.hist[1]) /\ IsAuthError(done[1].fr.hist[2])
    /\ done[1].fr.refreshes = 1
    /\ done[1].fr.sends = 2
    /\ done[1].fr.sleeps = <<>>
    /\ done[1].res.status = 401

(***************************************************************************)
(* C24. An exception raised during transport that is not an API error is   *)
(* retried after a backoff delay while attempts remain; when it comes on   *)
(* the last attempt post raises the generic "failed after N attempts"      *)
(* error, N being max_retries, in place of the exception that caused it.   *)
(***************************************************************************)
C24_UnexpectedExceptionRetried ==
    \A t \in Threads : \A fr \in PostFramesOf(t) :
        \A i \in 1 .. Len(fr.hist) :
            fr.hist[i].t = "exc" /\ Handled(fr, i) =>
                IF i < fr.max
                THEN /\ fr.attempt >= i
                     /\ \E j \in 1 .. Len(fr.sleeps) :
                           /\ fr.sleeps[j].kind = "backoff"
                           /\ fr.sleeps[j].after = i - 1
                           /\ 2 * fr.sleeps[j].ms >=
                                 Min(1000 * Pow2(i - 1), 32000)
                           /\ fr.sleeps[j].ms <=
                                 Min(1000 * Pow2(i - 1), 32000)
                ELSE /\ fr.pc = "left"
                     /\ i = fr.max /\ fr.sends = fr.max
                     /\ fr = done[t].fr =>
                           done[t].res =
                               Res("api", NoStatus, 0, FALSE,
                                   "failed_after_" \o ToString(fr.max),
                                   NoData)

\* three attempts, each ended by an exception that is not an API error:
\* two backoff sleeps, then "failed after 3 attempts"
C24_Witness ==
    /\ Finished(1)
    /\ done[1].fr.max = 3
    /\ Len(done[1].fr.hist) = 3
    /\ \A i \in 1 .. 3 : done[1].fr.hist[i].t = "exc"
    /\ Len(done[1].fr.sleeps) = 2
    /\ done[1].res.msg = "failed_after_3"

(***************************************************************************)
(* C25. When the credential store holds no refresh token,                  *)
(* _try_refresh_token returns false without any request to the refresh     *)
(* endpoint and without changing the in-memory or the persisted            *)
(* credential.                                                             *)
(***************************************************************************)
C25_NoRefreshTokenNoCall ==
    \A t \in Threads :
        (/\ InFrame(t, "post", "refreshing")
         /\ ret[t].t = "bool"
         /\ store.refresh = NoToken) =>
            /\ ~ret[t].data.success
            /\ refreshSent = 0
            /\ issued = 0
            /\ access_token = Top(t).trigMem
            /\ store.access = InitTok

\* post got 401 with no refresh token stored: the refresh returned false
C25_Witness ==
    /\ InFrame(1, "post", "refreshing")
    /\ IsAuthError(Top(1).e)
    /\ ret[1] = BoolRes(FALSE)
    /\ store.refresh = NoToken
    /\ refreshSent = 0

C27_ProactiveCheck ==
    \A t \in Threads : \A fr \in FramesOf(t) :
        fr.f = "ensure" =>
            LET finished == fr.pc = "left"
                expired == ExpiredAt(fr.exp, fr.now)
            IN /\ finished /\ ~fr.checked =>
                     /\ store.access = NoToken
                     /\ ~done[t].res.data.success
                     /\ refreshSent = 0 /\ access_token = fr.mem
               /\ fr.checked /\ ~expired =>
                     /\ finished
                     /\ done[t].res.data.success
                     /\ refreshSent = 0
                     /\ fr.tok = store.access /\ access_token = fr.tok
               /\ fr.checked /\ expired /\ fr.rt = NoToken =>
                     /\ finished
                     /\ store.refresh = NoToken
                     /\ ~done[t].res.data.success
                     /\ refreshSent = 0 /\ access_token = fr.mem
               /\ fr.checked /\ expired /\ fr.rt # NoToken =>
                     /\ finished => refreshSent >= 1
                     /\ finished /\ done[t].res.data.success =>
                           /\ access_token = store.access
                           /\ access_token = fr.new.access
               /\ fr.pc \in {"call", "set"} =>
                     fr.checked /\ expired /\ fr.rt # NoToken

\* the stored token had expired, a refresh token was there: the refresh
\* was requested and the new token installed
C27_Witness ==
    /\ done[1].fr.f = "ensure"
    /\ done[1].fr.checked
    /\ ExpiredAt(done[1].fr.exp, done[1].fr.now)
    /\ done[1].fr.rt # NoToken
    /\ done[1].res = BoolRes(TRUE)
    /\ refreshSent = 1
    /\ access_token = InitTok + 1

(***************************************************************************)
(* C28. check_token_expiry reports a credential as expired exactly when    *)
(* its expiry parses to a time t with now >= t; a missing or unparseable   *)
(* expiry is reported as not expired.                                      *)
(***************************************************************************)
C28_ExpiryCheck ==
    \A t \in Threads : \A fr \in FramesOf(t) :
        fr.f = "ensure" /\ fr.checked =>
            /\ fr.exp \in {NoExpiry, BadExpiry} => ~fr.expired
            /\ fr.exp \notin {NoExpiry, BadExpiry} =>
                  (fr.expired <=> fr.now >= fr.exp)

\* the clock read exactly the expiry time: expired
C28_Witness ==
    \E fr \in FramesOf(1) :
        /\ fr.f = "ensure" /\ fr.checked
        /\ fr.exp = 1 /\ fr.now = 1
        /\ fr.expired

(***************************************************************************)
(* C29. Every request post sends carries Content-Type: application/json;   *)
(* it carries Authorization: Bearer <access_token> if and only if the      *)
(* operation requires auth and the client holds a non-empty access token,  *)
(* so login and refresh requests never carry an Authorization header even  *)
(* when a token is held.                                                   *)
(***************************************************************************)
C29_RequestHeaders ==
    \A fr \in PostFramesOf(1) :
        /\ \A i \in DOMAIN fr.sentHdr :
              /\ fr.sentHdr[i].content_type = "application/json"
              /\ fr.path \in {"login", "refresh"} =>
                    fr.sentHdr[i].authorization = NoToken
        \* the request on the wire
        /\ fr.pc = "recv" =>
              LET sent == fr.sentHdr[Len(fr.sentHdr)]
              IN /\ sent.authorization # NoToken <=>
                       fr.auth /\ access_token # NoToken
                 /\ sent.authorization # NoToken =>
                       sent.authorization = access_token

\* a login request on the wire while the client holds a token
C29_Witness ==
    \E fr \in PostFramesOf(1) :
        /\ fr.path = "login" /\ fr.pc = "recv"
        /\ access_token # NoToken
        /\ fr.sentHdr[Len(fr.sentHdr)].authorization = NoToken

(***************************************************************************)
(* C30. After each page that does not end the aggregation, pull_all_cards  *)
(* sets the next requested offset to the server-declared next_offset, or   *)
(* to offset + limit when the server omits it; in particular when a page   *)
(* has fewer than limit items with has_more=true the declared next offset  *)
(* is used.                                                                *)
(***************************************************************************)
C30_NextOffset ==
    pull.pc = "loop" /\ pull.reqs # <<>> =>
        LET requested == pull.reqs[Len(pull.reqs)]
        IN /\ pull.last.next_offset = NoOffset =>
                 pull.offset = requested + PageLimit
           /\ pull.last.next_offset # NoOffset =>
                 pull.offset = pull.last.next_offset

\* a short page with has_more=true declaring the offset after its cards:
\* the next request starts there, not a full page further
C30_Witness ==
    /\ pull.pc = "loop" /\ pull.reqs # <<>>
    /\ pull.last.count > 0 /\ pull.last.count < PageLimit
    /\ pull.last.has_more = "true"
    /\ pull.last.next_offset =
          pull.reqs[Len(pull.reqs)] + pull.last.count
    /\ pull.offset = pull.last.next_offset

(***************************************************************************)
(* C31. pull_all_cards requests no further page once a page comes back     *)
(* with zero cards, or with fewer than `limit` cards and has_more false;   *)
(* against a backend holding finitely many cards and honouring offset and  *)
(* limit, the call ends and returns its aggregate.                         *)
(***************************************************************************)
\* the last page fetched ends the pull
EndingPage ==
    /\ pull.reqs # <<>>
    /\ \/ pull.last.count = 0
       \/ pull.last.count < PageLimit /\ pull.last.has_more = "false"

C31_Terminates ==
    /\ [](EndingPage => pull.pc = "returned")
    /\ [][EndingPage => pull.reqs' = pull.reqs]_vars
    /\ (pull.pc = "loop") ~>
           (pull.pc = "returned" /\ pull.result = "aggregate")

\* the backend said has_more=true on every page; the pull ended on the
\* empty page after the last card and returned the whole deck
C31_Witness ==
    /\ pull.pc = "returned" /\ pull.result = "aggregate"
    /\ pull.deck = 2 * PageLimit
    /\ pull.reqs = <<0, PageLimit, 2 * PageLimit>>
    /\ pull.last.count = 0 /\ pull.last.has_more = "true"
    /\ Len(pull.all_cards) = pull.deck

(***************************************************************************)
(* C32. When an observer is supplied, pull_all_cards calls it exactly once *)
(* per successfully fetched page, after accumulating that page, with the   *)
(* number of cards accumulated so far and the total declared by the first  *)
(* page; the number of cards so far never decreases from one call to the   *)
(* next and the last call reports the size of the returned result.         *)
(* Without an observer nothing is reported.                                *)
(***************************************************************************)
\* the pages fetched with success so far
PagesFetched ==
    IF pull.result \in {"failure", "error"} THEN Len(pull.reqs) - 1
    ELSE Len(pull.reqs)

C32_ObserverCalls ==
    pull.pc \in {"loop", "returned", "raised"} =>
        /\ ~pull.observer => pull.obs = <<>>
        /\ pull.observer =>
              /\ Len(pull.obs) = PagesFetched
              /\ \A i \in 1 .. Len(pull.obs) :
                    /\ pull.obs[i][2] = pull.first.total
                    /\ i > 1 => pull.obs[i - 1][1] <= pull.obs[i][1]
              /\ pull.obs # <<>> =>
                    pull.obs[Len(pull.obs)][1] = Len(pull.all_cards)

(***************************************************************************)
(* C33. download_deck_file sends its GET without an Authorization header   *)
(* and, on either transport, never returns an empty byte string and never  *)
(* returns the body of a response whose content type is text/html or       *)
(* application/json: in those cases it raises an error.                    *)
(***************************************************************************)
C33_DownloadValidated ==
    /\ download.pc \in {"sent", "returned", "raised"} =>
          download.authorization = NoToken
    /\ download.pc = "returned" =>
          /\ download.content > 0
          /\ ~IsErrorPage(download.resp.ctype)
    /\ (/\ download.resp.net = "ok"
        /\ download.resp.len = 0 \/ IsErrorPage(download.resp.ctype)) =>
          download.pc = "raised"

(***************************************************************************)
(* C34. For every max_retries >= 1 and every sequence of transport         *)
(* outcomes, post never ends with the generic "Maximum retries exceeded"   *)
(* error: it returns a response, or raises the error of its last transport *)
(* attempt, or the "failed after N attempts" error.                        *)
(***************************************************************************)
C34_NoGenericExhaustion ==
    \A t \in Threads :
        Finished(t) =>
            LET fr == done[t].fr
                res == done[t].res
            IN /\ res.msg # "max_retries"
               /\ \/ res.t = "ok"
                  \/ fr.sends >= 1 /\ res = fr.e
                  \/ res = FailedAfter(fr.max)

(***************************************************************************)
(* C35. A request issued with require_auth=False (login, refresh) never    *)
(* triggers a credential refresh: a 401/403 answer to it is propagated to  *)
(* the caller without calling the refresh endpoint and without changing    *)
(* the stored or the in-memory credential.                                 *)
(***************************************************************************)
C35_NoRefreshWithoutAuth ==
    /\ \A fr \in PostFrames : ~fr.auth => fr.refreshes = 0
    /\ LET fr == done[1].fr
       IN (/\ Finished(1)
           /\ fr.path = "login"
           /\ IsAuthError(fr.hist[1])) =>
              /\ fr.sends = 1
              /\ done[1].res = fr.e /\ IsAuthError(done[1].res)
              /\ refreshSent = 0
              /\ access_token = InitTok
              /\ store.access = InitTok

(***************************************************************************)
(* C36. Every authenticated attempt sent by post carries the access token  *)
(* that is the client's in-memory token at the time the attempt is sent;   *)
(* in particular a retry after a server error that follows another         *)
(* thread's successful refresh carries the refreshed token, not the one    *)
(* read when the call started.                                             *)
(***************************************************************************)
C36_SendsCurrentToken ==
    [][\A t \in Threads :
          Send(t) /\ Top(t).auth =>
              LET sent == stack'[t][Depth(t)].sentHdr
              IN sent[Len(sent)].authorization = access_token]_vars

(***************************************************************************)
(* C37. Once a proactive ensure_valid_token and a reactive refresh         *)
(* (_try_refresh_token, from a post answered 401/403) on the shared client *)
(* have both completed, in whatever interleaving, the in-memory access     *)
(* token equals the access token persisted in the credential store: a      *)
(* refreshed token is never replaced in memory by an older one.            *)
(***************************************************************************)
C37_MemoryMatchesStore ==
    \A t, u \in Threads :
        (/\ done[t].fr.f = "ensure"
         /\ done[u].fr.f = "post" /\ done[u].fr.refreshes >= 1) =>
            access_token = store.access

(***************************************************************************)
(* C38. For any sequence of server responses, the offsets requested during *)
(* one pull_all_cards call are strictly increasing, so no page is          *)
(* requested twice and the first-page capture (offset == 0) happens only   *)
(* on the first iteration.                                                 *)
(***************************************************************************)
C38_OffsetsIncrease ==
    /\ \A i, j \in 1 .. Len(pull.reqs) :
          i < j => pull.reqs[i] < pull.reqs[j]
    /\ pull.pc = "loop" /\ pull.reqs # <<>> =>
          pull.reqs[Len(pull.reqs)] < pull.offset

(***************************************************************************)
(* C39. When a page fetched by pull_all_cards comes back without success,  *)
(* the call stops at once and returns that page's result: the cards        *)
(* gathered from earlier pages are not returned as an aggregate and the    *)
(* failed page adds nothing to them, no further page is requested and the  *)
(* observer is not called for that page.                                   *)
(***************************************************************************)
C39_FailedPageEndsPull ==
    (/\ pull.pc \in {"loop", "returned"}
     /\ pull.reqs # <<>>
     /\ ~pull.last.success) =>
        /\ pull.pc = "returned" /\ pull.result = "failure"
        /\ Len(pull.obs) = IF pull.observer THEN Len(pull.reqs) - 1 ELSE 0
        /\ pull.obs # <<>> =>
              pull.obs[Len(pull.obs)][1] = Len(pull.all_cards)

\* the second page failed, holding a card: the call returned it with one
\* progress report made, for the first page
C39_Witness ==
    /\ pull.pc = "returned" /\ pull.result = "failure"
    /\ pull.observer
    /\ pull.reqs = <<0, PageLimit>>
    /\ ~pull.last.success /\ pull.last.count > 0
    /\ Len(pull.all_cards) = PageLimit
    /\ Len(pull.obs) = 1

(***************************************************************************)
(* C40. post never sleeps after its final attempt: a backoff or rate-limit *)
(* sleep occurs only when at least one attempt remains, so one call        *)
(* performs at most max_retries - 1 sleeps and each sleep is immediately   *)
(* followed by another transport call.                                     *)
(***************************************************************************)
C40_NoSleepAfterLastAttempt ==
    \A fr \in PostFrames :
        /\ Len(fr.sleeps) <= fr.max - 1
        /\ \A j \in 1 .. Len(fr.sleeps) :
              LET after == fr.sleeps[j].after
              IN /\ after < fr.max - 1
                 \* the attempt after the sleep was sent, or is next
                 /\ \/ fr.sends >= after + 2
                    \/ /\ fr.pc = "send"
                       /\ fr.attempt = after + 1
                       /\ InRange(fr.attempt, fr.max)

\* three attempts, a rate-limit sleep after the first and a backoff after
\* the second, none after the third
C40_Witness ==
    /\ Finished(1)
    /\ done[1].fr.max = 3 /\ done[1].fr.sends = 3
    /\ Len(done[1].fr.sleeps) = 2
    /\ done[1].fr.sleeps[1].kind = "rate"
    /\ done[1].fr.sleeps[2].kind = "backoff"
    /\ done[1].res.t # "ok"

====
